---- MODULE Spec2Model ----
(***************************************************************************)
(* il::HashMap<K, V, F> (src/il/container/hash/HashMap.h): an open          *)
(* addressing hash table with triangular probing, tombstones and            *)
(* power-of-two capacities.                                                 *)
(*                                                                          *)
(* Keys are the integers 1..MaxKey, values 1..MaxVal.  F::empty_key() is    *)
(* 0, F::tombstone_key() is -1 and V{} is 0.  F::hash_value is a parameter  *)
(* of the table (template argument F): it is drawn at construction from     *)
(* all functions Keys -> 0..MaxHash.                                        *)
(*                                                                          *)
(* The library has two builds.  In the checked build IL_ASSERT,             *)
(* IL_ASSERT_PRECOND and the bounds check of il::Array::operator[] abort    *)
(* the program; in the unchecked build the assertions are compiled out and  *)
(* an out-of-bounds store is undefined behaviour.  `checked` selects the    *)
(* build, `fault` records how the program stopped.                          *)
(***************************************************************************)
EXTENDS Integers, Sequences, FiniteSets, TLC

VARIABLES bucket_, nb_entries_, nb_tombstones_, hash, checked, fault, live, op,
          saved

vars == <<bucket_, nb_entries_, nb_tombstones_, hash, checked, fault, live, op,
          saved>>

-----------------------------------------------------------------------------
(* Bounds of the model *)

MaxKey == 2

MaxVal == 1

MaxHash == 1

MaxInit == 1

MaxReserve == 2

MaxTomb == 3

MaxList == 2

Keys == 1..MaxKey

Vals == 1..MaxVal

-----------------------------------------------------------------------------
(* Key policy F and slots *)

empty_key == 0

tombstone_key == 0 - 1

DefaultValue == 0

is_equal(a, b) == a = b

hash_value(h, key) == IF key \in DOMAIN h THEN h[key] ELSE 0

\* KeyValue(): a default-constructed slot
KeyValue == [key |-> empty_key, value |-> DefaultValue]

\* bucket_[i], 0-based
At(b, i) == b[i + 1]

\* il::Array<KeyValue>{n} / resize(n) of a moved-from array: n default slots
NewBucket(n) == [j \in 1..n |-> KeyValue]

InRange(b, i) == 0 <= i /\ i < Len(b)

Min(S) == CHOOSE x \in S : \A y \in S : x <= y

IsOccupied(s) == ~is_equal(s.key, empty_key) /\ ~is_equal(s.key, tombstone_key)

-----------------------------------------------------------------------------
(* Integer bit operations on non-negative il::int_t *)

RECURSIVE BitAnd(_, _)
BitAnd(a, b) ==
  IF a = 0 \/ b = 0 THEN 0
  ELSE (a % 2) * (b % 2) + 2 * BitAnd(a \div 2, b \div 2)

RECURSIVE BitOr(_, _)
BitOr(a, b) ==
  IF a = 0 THEN b
  ELSE IF b = 0 THEN a
  ELSE (IF a % 2 = 1 \/ b % 2 = 1 THEN 1 ELSE 0) + 2 * BitOr(a \div 2, b \div 2)

RECURSIVE Shr(_, _)
Shr(i, s) == IF s = 0 \/ i = 0 THEN i ELSE Shr(i \div 2, s - 1)

OrShr(i, s) == BitOr(i, Shr(i, s))

\* next_power_of_2 without its last statement, i = i + 1
next_power_of_2_no_increment(i) ==
  OrShr(OrShr(OrShr(OrShr(OrShr(OrShr(i, 1), 2), 4), 8), 16), 32)

next_power_of_2(i) ==
  OrShr(OrShr(OrShr(OrShr(OrShr(OrShr(i, 1), 2), 4), 8), 16), 32) + 1

\* nb_bucket without its case nb_entries == 0
nb_bucket_no_zero_case(nb_entries) ==
  next_power_of_2((3 * nb_entries) \div 2 + 1)

nb_bucket(nb_entries) ==
  IF nb_entries = 0 THEN 1 ELSE next_power_of_2((3 * nb_entries) \div 2 + 1)

-----------------------------------------------------------------------------
(* search *)

found(i) == i >= 0

\* the probing loop of search, had it stopped at the first Tombstone as it
\* stops at an Empty slot
RECURSIVE SearchLoopStopAtTombstone(_, _, _, _, _, _)
SearchLoopStopAtTombstone(b, key, i, i_tombstone, delta_i, k) ==
  IF ~(k < Len(b)) THEN 0 - (1 + Len(b))
  ELSE IF is_equal(At(b, i).key, key) THEN i
  ELSE IF is_equal(At(b, i).key, empty_key) \/ is_equal(At(b, i).key, tombstone_key)
       THEN 0 - (1 + i)
  ELSE SearchLoopStopAtTombstone(b, key, BitAnd(i + delta_i, Len(b) - 1),
                                 i_tombstone, delta_i + 1, k + 1)

\* the probing loop of search, had it recorded every Tombstone it passes
\* and not only the first
RECURSIVE SearchLoopLastTombstone(_, _, _, _, _, _)
SearchLoopLastTombstone(b, key, i, i_tombstone, delta_i, k) ==
  IF ~(k < Len(b)) THEN 0 - (1 + Len(b))
  ELSE IF is_equal(At(b, i).key, key) THEN i
  ELSE IF is_equal(At(b, i).key, empty_key)
       THEN (IF i_tombstone = 0 - 1 THEN 0 - (1 + i) ELSE 0 - (1 + i_tombstone))
  ELSE SearchLoopLastTombstone(b, key,
                  BitAnd(i + delta_i, Len(b) - 1),
                  IF is_equal(At(b, i).key, tombstone_key) THEN i ELSE i_tombstone,
                  delta_i + 1, k + 1)

\* the probing loop of search, had it added 2 to delta_i at each probe
RECURSIVE SearchLoopDeltaByTwo(_, _, _, _, _, _)
SearchLoopDeltaByTwo(b, key, i, i_tombstone, delta_i, k) ==
  IF ~(k < Len(b)) THEN 0 - (1 + Len(b))
  ELSE IF is_equal(At(b, i).key, key) THEN i
  ELSE IF is_equal(At(b, i).key, empty_key)
       THEN (IF i_tombstone = 0 - 1 THEN 0 - (1 + i) ELSE 0 - (1 + i_tombstone))
  ELSE SearchLoopDeltaByTwo(b, key,
                  BitAnd(i + delta_i, Len(b) - 1),
                  IF is_equal(At(b, i).key, tombstone_key) /\ i_tombstone = 0 - 1
                    THEN i ELSE i_tombstone,
                  delta_i + 2, k + 1)

\* the probing loop of search: k-th probe at index i
RECURSIVE SearchLoop(_, _, _, _, _, _)
SearchLoop(b, key, i, i_tombstone, delta_i, k) ==
  IF ~(k < Len(b)) THEN 0 - (1 + Len(b))
  ELSE IF is_equal(At(b, i).key, key) THEN i
  ELSE IF is_equal(At(b, i).key, empty_key)
       THEN (IF i_tombstone = 0 - 1 THEN 0 - (1 + i) ELSE 0 - (1 + i_tombstone))
  ELSE SearchLoop(b, key,
                  BitAnd(i + delta_i, Len(b) - 1),
                  IF is_equal(At(b, i).key, tombstone_key) /\ i_tombstone = 0 - 1
                    THEN i ELSE i_tombstone,
                  delta_i + 1, k + 1)

search(b, h, key) ==
  IF Len(b) = 0 THEN 0 - (1 + Len(b))
  ELSE SearchLoop(b, key, BitAnd(hash_value(h, key), Len(b) - 1), 0 - 1, 1, 0)

\* the two IL_ASSERT_PRECOND of search
SearchPrecond(key) == ~is_equal(key, empty_key) /\ ~is_equal(key, tombstone_key)

-----------------------------------------------------------------------------
(* The table as a value: the fields of HashMap, how the program stopped     *)
(* (fault) and whether grow() rebuilt the storage during the call (grew).   *)

Map(b, ne, nt) ==
  [bucket_ |-> b, nb_entries_ |-> ne, nb_tombstones_ |-> nt,
   fault |-> "none", grew |-> FALSE]

Stop(m, why) == [m EXCEPT !.fault = why]

\* bucket_[i].key = key; bucket_[i].value = value
Store(b, i, key, value) == [b EXCEPT ![i + 1] = [key |-> key, value |-> value]]

RECURSIVE grow(_, _, _, _)

\* insert(key, value, il::io, i), had it kept the position it was given
\* after growing instead of searching again
insert_io_stale(m, h, c, key, value, i) ==
  IF c /\ found(i) THEN Stop(m, "precond")
  ELSE
    LET g == IF m.nb_entries_ >= Len(m.bucket_)
               THEN grow(m, h, c, nb_bucket(m.nb_entries_))
               ELSE m
        i_local == 0 - (1 + i)
    IN  IF g.fault # "none" THEN g
        ELSE IF ~InRange(g.bucket_, i_local)
               THEN Stop(g, IF c THEN "bounds" ELSE "ub")
        ELSE [g EXCEPT !.bucket_ = Store(g.bucket_, i_local, key, value),
                       !.nb_entries_ = g.nb_entries_ + 1]

\* insert(key, value, il::io, i) growing on every call
insert_io_always_grows(m, h, c, key, value, i) ==
  IF c /\ found(i) THEN Stop(m, "precond")
  ELSE
    LET g == grow(m, h, c, nb_bucket(m.nb_entries_))
        i_local == 0 - (1 + search(g.bucket_, h, key))
    IN  IF g.fault # "none" THEN g
        ELSE IF c /\ ~SearchPrecond(key) THEN Stop(g, "precond")
        ELSE IF ~InRange(g.bucket_, i_local)
               THEN Stop(g, IF c THEN "bounds" ELSE "ub")
        ELSE [g EXCEPT !.bucket_ = Store(g.bucket_, i_local, key, value),
                       !.nb_entries_ = g.nb_entries_ + 1]

\* insert(key, value, il::io, i) growing before the load passes two thirds
insert_io_two_thirds(m, h, c, key, value, i) ==
  IF c /\ found(i) THEN Stop(m, "precond")
  ELSE
    LET early == 3 * (m.nb_entries_ + 1) > 2 * Len(m.bucket_)
        g == IF early THEN grow(m, h, c, nb_bucket(m.nb_entries_)) ELSE m
        i_local == IF early THEN 0 - (1 + search(g.bucket_, h, key))
                   ELSE 0 - (1 + i)
    IN  IF g.fault # "none" THEN g
        ELSE IF early /\ c /\ ~SearchPrecond(key) THEN Stop(g, "precond")
        ELSE IF ~InRange(g.bucket_, i_local)
               THEN Stop(g, IF c THEN "bounds" ELSE "ub")
        ELSE [g EXCEPT !.bucket_ = Store(g.bucket_, i_local, key, value),
                       !.nb_entries_ = g.nb_entries_ + 1]

\* insert(key, value, il::io, i).  After a growth it calls search(key), whose
\* two IL_ASSERT_PRECOND stop the checked build on a sentinel key.
insert_io(m, h, c, key, value, i) ==
  IF c /\ found(i) THEN Stop(m, "precond")
  ELSE
    LET grows == m.nb_entries_ >= Len(m.bucket_)
        g == IF grows THEN grow(m, h, c, nb_bucket(m.nb_entries_)) ELSE m
        i_local == IF grows THEN 0 - (1 + search(g.bucket_, h, key))
                   ELSE 0 - (1 + i)
    IN  IF g.fault # "none" THEN g
        ELSE IF grows /\ c /\ ~SearchPrecond(key) THEN Stop(g, "precond")
        ELSE IF ~InRange(g.bucket_, i_local)
               THEN Stop(g, IF c THEN "bounds" ELSE "ub")
        ELSE [g EXCEPT !.bucket_ = Store(g.bucket_, i_local, key, value),
                       !.nb_entries_ = g.nb_entries_ + 1]

\* insert(key, value) passing the key's home bucket, not the result of search
insert_at_home(m, h, c, key, value) ==
  IF c /\ found(search(m.bucket_, h, key)) THEN Stop(m, "assert")
  ELSE insert_io(m, h, c, key, value,
                 IF Len(m.bucket_) = 0 THEN 0 - 1
                 ELSE 0 - (1 + BitAnd(hash_value(h, key), Len(m.bucket_) - 1)))

\* insert(key, value)
insert(m, h, c, key, value) ==
  IF c /\ ~SearchPrecond(key) THEN Stop(m, "precond")
  ELSE
    LET i == search(m.bucket_, h, key)
    IN  IF c /\ found(i) THEN Stop(m, "assert")
        ELSE insert_io(m, h, c, key, value, i)

\* the loop of grow over old_bucket, from index i
RECURSIVE GrowLoop(_, _, _, _, _)
GrowLoop(m, h, c, old_bucket, i) ==
  IF ~(i < Len(old_bucket)) \/ m.fault # "none" THEN m
  ELSE GrowLoop(IF IsOccupied(At(old_bucket, i))
                  THEN insert(m, h, c, At(old_bucket, i).key, At(old_bucket, i).value)
                  ELSE m,
                h, c, old_bucket, i + 1)

\* grow, had it not reset nb_tombstones_
grow_keeps_tombstone_count(m, h, c, n) ==
  IF c /\ ~(n >= Len(m.bucket_)) THEN Stop(m, "assert")
  ELSE GrowLoop([m EXCEPT !.bucket_ = NewBucket(n), !.nb_entries_ = 0,
                          !.grew = TRUE],
                h, c, m.bucket_, 0)

\* grow, had its loop over old_bucket started at index 1
grow_skips_first_slot(m, h, c, n) ==
  IF c /\ ~(n >= Len(m.bucket_)) THEN Stop(m, "assert")
  ELSE GrowLoop([m EXCEPT !.bucket_ = NewBucket(n), !.nb_entries_ = 0,
                          !.nb_tombstones_ = 0, !.grew = TRUE],
                h, c, m.bucket_, 1)

grow(m, h, c, n) ==
  IF c /\ ~(n >= Len(m.bucket_)) THEN Stop(m, "assert")
  ELSE GrowLoop([m EXCEPT !.bucket_ = NewBucket(n), !.nb_entries_ = 0,
                          !.nb_tombstones_ = 0, !.grew = TRUE],
                h, c, m.bucket_, 0)

\* erase(i), had it left the value of the slot in place
erase_keeps_value(m, c, i) ==
  IF ~InRange(m.bucket_, i) THEN Stop(m, IF c THEN "bounds" ELSE "ub")
  ELSE [m EXCEPT !.bucket_ = Store(m.bucket_, i, tombstone_key, At(m.bucket_, i).value),
                 !.nb_entries_ = m.nb_entries_ - 1,
                 !.nb_tombstones_ = m.nb_tombstones_ + 1]

\* erase(i), had it marked the slot Empty instead of Tombstone
erase_marks_empty(m, c, i) ==
  IF ~InRange(m.bucket_, i) THEN Stop(m, IF c THEN "bounds" ELSE "ub")
  ELSE [m EXCEPT !.bucket_ = Store(m.bucket_, i, empty_key, DefaultValue),
                 !.nb_entries_ = m.nb_entries_ - 1,
                 !.nb_tombstones_ = m.nb_tombstones_ + 1]

\* erase(i)
erase(m, c, i) ==
  IF ~InRange(m.bucket_, i) THEN Stop(m, IF c THEN "bounds" ELSE "ub")
  ELSE [m EXCEPT !.bucket_ = Store(m.bucket_, i, tombstone_key, DefaultValue),
                 !.nb_entries_ = m.nb_entries_ - 1,
                 !.nb_tombstones_ = m.nb_tombstones_ + 1]

\* reserve(r)
reserve(m, h, c, r) == grow(m, h, c, nb_bucket(r))

size(m) == m.nb_entries_

capacity(m) == Len(m.bucket_)

value(m, i) == At(m.bucket_, i).value

\* value(i) = v: a store through the reference V& value(il::int_t i) returns
set_value(m, c, i, v) ==
  IF ~InRange(m.bucket_, i) THEN Stop(m, IF c THEN "bounds" ELSE "ub")
  ELSE [m EXCEPT !.bucket_ = [m.bucket_ EXCEPT ![i + 1].value = v]]

\* it->key = key: a store through the reference operator*() / operator->()
\* of an iterator at position p returns
set_key(m, p, key) ==
  [m EXCEPT !.bucket_ = [m.bucket_ EXCEPT ![p + 1].key = key]]

-----------------------------------------------------------------------------
(* Iteration.  An iterator is the index of the slot its pointer_ is at;    *)
(* end_ is the size of the storage.                                         *)

\* HashMapIterator::advance_past_empty_buckets
RECURSIVE advance_past_empty_buckets(_, _)
advance_past_empty_buckets(b, p) ==
  IF p # Len(b) /\ (is_equal(At(b, p).key, empty_key) \/
                    is_equal(At(b, p).key, tombstone_key))
    THEN advance_past_empty_buckets(b, p + 1)
    ELSE p

\* HashMapIterator::operator++
increment(b, p) == advance_past_empty_buckets(b, p + 1)

\* HashMap::end
end(m) == Len(m.bucket_)

empty(m) == m.nb_entries_ = 0

\* the scan of begin() from index i.  The loop has no bound: when it leaves
\* the storage the read bucket_[i] is out of bounds, written 0 - 1 here.
RECURSIVE BeginScan(_, _)
BeginScan(b, i) ==
  IF ~InRange(b, i) THEN 0 - 1
  ELSE IF IsOccupied(At(b, i)) THEN i
  ELSE BeginScan(b, i + 1)

\* HashMap::begin
begin(m) == IF empty(m) THEN end(m) ELSE BeginScan(m.bucket_, 0)

\* for (it = p; it != end(); ++it): the positions visited, in order
RECURSIVE Traverse(_, _)
Traverse(b, p) ==
  IF p = Len(b) \/ ~InRange(b, p) THEN <<>>
  ELSE <<p>> \o Traverse(b, increment(b, p))

\* the positions visited from begin(); <<0 - 1>> when begin() left the storage
Iteration(m) ==
  IF begin(m) = 0 - 1 THEN <<0 - 1>> ELSE Traverse(m.bucket_, begin(m))

-----------------------------------------------------------------------------
(* Diagnostics.  displaced() and displaced_twice() return a double, the     *)
(* quotient of a count of slots by nb_entries_: the model keeps the         *)
(* fraction, num over den.                                                  *)

\* load(): nb_entries_ / bucket_.size()
load(m) == [num |-> m.nb_entries_, den |-> Len(m.bucket_)]

\* the loop of displaced(), at index i with nb_displaced counted so far
RECURSIVE DisplacedLoop(_, _, _, _)
DisplacedLoop(b, h, i, nb_displaced) ==
  IF ~(i < Len(b)) THEN nb_displaced
  ELSE LET hashed == BitAnd(hash_value(h, At(b, i).key), Len(b) - 1)
       IN  DisplacedLoop(b, h, i + 1,
             IF IsOccupied(At(b, i)) /\ i # hashed
               THEN nb_displaced + 1 ELSE nb_displaced)

displaced(m, h) ==
  [num |-> DisplacedLoop(m.bucket_, h, 0, 0), den |-> m.nb_entries_]

\* the loop of displaced_twice() without the test i != hashed
RECURSIVE DisplacedTwiceLoopNoHomeTest(_, _, _, _)
DisplacedTwiceLoopNoHomeTest(b, h, i, nb_displaced_twice) ==
  IF ~(i < Len(b)) THEN nb_displaced_twice
  ELSE LET hashed == BitAnd(hash_value(h, At(b, i).key), Len(b) - 1)
       IN  DisplacedTwiceLoopNoHomeTest(b, h, i + 1,
             IF IsOccupied(At(b, i)) /\ (i > 0 /\ (i - 1) # hashed)
               THEN nb_displaced_twice + 1 ELSE nb_displaced_twice)

\* the loop of displaced_twice()
RECURSIVE DisplacedTwiceLoop(_, _, _, _)
DisplacedTwiceLoop(b, h, i, nb_displaced_twice) ==
  IF ~(i < Len(b)) THEN nb_displaced_twice
  ELSE LET hashed == BitAnd(hash_value(h, At(b, i).key), Len(b) - 1)
       IN  DisplacedTwiceLoop(b, h, i + 1,
             IF IsOccupied(At(b, i)) /\ i # hashed /\ (i > 0 /\ (i - 1) # hashed)
               THEN nb_displaced_twice + 1 ELSE nb_displaced_twice)

displaced_twice(m, h) ==
  [num |-> DisplacedTwiceLoop(m.bucket_, h, 0, 0), den |-> m.nb_entries_]

-----------------------------------------------------------------------------
(* Constructors *)

\* HashMap()
HashMapDefault == Map(<<>>, 0, 0)

\* HashMap(il::int_t nb_entries)
HashMapEntries(nb_entries) == Map(NewBucket(nb_bucket(nb_entries)), 0, 0)

\* the loop of HashMap(il::value, list), at element k of the list
RECURSIVE ListLoop(_, _, _, _, _)
ListLoop(m, h, c, list, k) ==
  IF ~(k < Len(list)) \/ m.fault # "none" THEN m
  ELSE LET key == list[k + 1].key
           i == search(m.bucket_, h, key)
       IN  ListLoop(IF c /\ ~SearchPrecond(key) THEN Stop(m, "precond")
                    ELSE IF c /\ found(i) THEN Stop(m, "assert")
                    ELSE insert_io(m, h, c, key, list[k + 1].value, i),
                    h, c, list, k + 1)

\* HashMap(il::value_t, std::initializer_list<KeyValue> list)
HashMapList(h, c, list) ==
  ListLoop(Map(NewBucket(nb_bucket(Len(list))), 0, 0), h, c, list, 0)

-----------------------------------------------------------------------------
(* The program: one table, driven by a caller that respects the contracts   *)
(* of section 6 of the specification: it inserts a key only after search    *)
(* reported it absent and erases only the position of a live key.           *)
(*                                                                          *)
(* live is the caller's view: the value of every key whose insert returned  *)
(* and that was not erased since (0 when absent).  op describes the last    *)
(* call: its name and arguments, whether it rebuilt the storage (grew),     *)
(* whether no slot was Empty when it started (sat), whether some slot was   *)
(* a Tombstone when it started (tomb), whether it is an                     *)
(* insert of the key that the call before it erased (reins), and size()     *)
(* before the call (before the erase, for such an insert).  The value an    *)
(* insert wrote is live[op.key]; val is the argument of reserve.            *)
(* saved is a local variable of the caller: the key and the result of a     *)
(* search it keeps for a later insert(key, value, il::io, i).               *)

This == Map(bucket_, nb_entries_, nb_tombstones_)

NoEmptySlot(b) == \A j \in 1..Len(b) : ~is_equal(b[j].key, empty_key)

HasTombstone(b) == \E j \in 1..Len(b) : is_equal(b[j].key, tombstone_key)

Op(name, key, val, grew, sat, tomb, reins, size0) ==
  [name |-> name, key |-> key, val |-> val, grew |-> grew, sat |-> sat,
   tomb |-> tomb, reins |-> reins, size0 |-> size0]

\* The key policies considered.  Keys enter the table only through
\* hash_value and is_equal, so renaming the keys changes nothing: it is
\* enough to take the hash functions that are non-decreasing in the key.
HashFunctions ==
  {h \in [Keys -> 0..MaxHash] : \A j, k \in Keys : j <= k => h[j] <= h[k]}

\* the initializer lists of at most MaxList elements over the keys K
ListsOver(K) ==
  UNION {[1..n -> [key : K, value : Vals]] : n \in 0..MaxList}

\* the lists a caller that respects the contracts passes: pairwise
\* distinct keys
DistinctLists(K) ==
  {list \in ListsOver(K) :
     \A j1, j2 \in 1..Len(list) : list[j1].key = list[j2].key => j1 = j2}

\* the value the list gives for key k (its first, if several), 0 if none
ListValue(list, k) ==
  IF \E j \in 1..Len(list) : list[j].key = k
    THEN list[Min({j \in 1..Len(list) : list[j].key = k})].value
    ELSE 0

\* the object after HashMap() (n = -1) or HashMap(n)
Constructed(K) ==
  /\ \E n \in (0 - 1)..MaxInit :
       LET m == IF n = 0 - 1 THEN HashMapDefault ELSE HashMapEntries(n)
       IN  /\ bucket_ = m.bucket_
           /\ nb_entries_ = m.nb_entries_
           /\ nb_tombstones_ = m.nb_tombstones_
           /\ fault = m.fault
  /\ live = [k \in K |-> 0]
  /\ op = Op("init", 0, 0, FALSE, FALSE, FALSE, FALSE, 0)

\* the object after HashMap(il::value, list), for a list of lists
ConstructedFrom(K, lists) ==
  \E list \in lists :
    LET m == HashMapList(hash, checked, list)
    IN  /\ bucket_ = m.bucket_
        /\ nb_entries_ = m.nb_entries_
        /\ nb_tombstones_ = m.nb_tombstones_
        /\ fault = m.fault
        /\ live = [k \in K |-> IF m.fault = "none" THEN ListValue(list, k) ELSE 0]
        /\ op = Op("init_list", 0, 0, FALSE, FALSE, FALSE, FALSE, 0)

Init ==
  /\ hash \in HashFunctions
  /\ checked \in BOOLEAN
  /\ Constructed(Keys) \/ ConstructedFrom(Keys, DistinctLists(Keys))
  /\ saved = [key |-> empty_key, pos |-> 0]

\* The state after a call that returned r.  An out-of-bounds store in the
\* unchecked build is undefined behaviour: the program crashes at the store
\* (silent = FALSE), or the store lands past the storage and the call goes on
\* to its last statement, ++nb_entries_ (silent = TRUE).  Either way nothing
\* more is said about the program afterwards.
Return(r, silent) ==
  /\ bucket_' = r.bucket_
  /\ nb_entries_' = r.nb_entries_ + (IF silent THEN 1 ELSE 0)
  /\ nb_tombstones_' = r.nb_tombstones_
  /\ fault' = r.fault
  /\ UNCHANGED <<hash, checked, saved>>

Insert(k, v) ==
  /\ fault = "none"
  /\ ~found(search(bucket_, hash, k))
  /\ LET r == insert(This, hash, checked, k, v)
     IN  \E silent \in BOOLEAN :
           /\ silent => r.fault = "ub"
           /\ Return(r, silent)
           /\ live' = IF r.fault = "none" \/ silent THEN [live EXCEPT ![k] = v] ELSE live
           /\ op' = Op("insert", k, 0, r.grew, NoEmptySlot(bucket_), HasTombstone(bucket_),
                       op.name = "erase" /\ op.key = k,
                       IF op.name = "erase" /\ op.key = k THEN op.size0 ELSE nb_entries_)

Erase(k) ==
  /\ fault = "none"
  /\ nb_tombstones_ < MaxTomb
  /\ found(search(bucket_, hash, k))
  /\ LET r == erase(This, checked, search(bucket_, hash, k))
     IN  /\ Return(r, FALSE)
         /\ live' = [live EXCEPT ![k] = 0]
         /\ op' = Op("erase", k, 0, r.grew, NoEmptySlot(bucket_),
                     HasTombstone(bucket_), FALSE, nb_entries_)

Reserve(n) ==
  /\ fault = "none"
  /\ LET r == reserve(This, hash, checked, n)
     IN  /\ Return(r, FALSE)
         /\ live' = live
         /\ op' = Op("reserve", 0, n, r.grew, NoEmptySlot(bucket_),
                     HasTombstone(bucket_), FALSE, nb_entries_)

\* i = search(k); value(i) = v, for a key that is present.  op records the
\* search that gave the position.
SetValue(k, v) ==
  /\ fault = "none"
  /\ found(search(bucket_, hash, k))
  /\ LET r == set_value(This, checked, search(bucket_, hash, k), v)
     IN  /\ Return(r, FALSE)
         /\ live' = [live EXCEPT ![k] = v]
         /\ op' = Op("search", 0, 0, r.grew, NoEmptySlot(bucket_),
                     HasTombstone(bucket_), FALSE, nb_entries_)

Search(k) ==
  /\ fault = "none"
  /\ k \in Keys
  /\ op' = Op("search", 0, 0, FALSE, NoEmptySlot(bucket_),
                     HasTombstone(bucket_), FALSE, nb_entries_)
  /\ UNCHANGED <<bucket_, nb_entries_, nb_tombstones_, hash, checked, fault, live,
                 saved>>

Next ==
  \/ \E k \in Keys, v \in Vals : Insert(k, v)
  \/ \E k \in Keys : Erase(k)
  \/ \E n \in 0..MaxReserve : Reserve(n)
  \/ \E k \in Keys, v \in Vals : SetValue(k, v)
  \/ \E k \in Keys : Search(k)

Spec == Init /\ [][Next]_vars

\* Only inserts and searches: the table is filled from empty.
NextInsert ==
  \/ \E k \in Keys, v \in Vals : Insert(k, v)
  \/ \E k \in Keys, v \in Vals : SetValue(k, v)
  \/ \E k \in Keys : Search(k)

SpecInsert == Init /\ [][NextInsert]_vars

-----------------------------------------------------------------------------
(* The same program with two more keys in the key type, enough to fill a    *)
(* table of capacity 4.                                                     *)

MoreKeys == 1..(MaxKey + 2)

InitFill ==
  /\ hash \in {h \in [MoreKeys -> 0..MaxHash] :
                 \A j, k \in MoreKeys : j <= k => h[j] <= h[k]}
  /\ checked \in BOOLEAN
  /\ Constructed(MoreKeys) \/ ConstructedFrom(MoreKeys, DistinctLists(MoreKeys))
  /\ saved = [key |-> empty_key, pos |-> 0]

NextFill ==
  \/ \E k \in MoreKeys, v \in Vals : Insert(k, v)
  \/ \E k \in MoreKeys : Erase(k)
  \/ \E n \in 0..MaxReserve : Reserve(n)
  \/ \E k \in MoreKeys, v \in Vals : SetValue(k, v)

SpecFill == InitFill /\ [][NextFill]_vars

-----------------------------------------------------------------------------
(* A caller of the checked build that may break the contracts of section 6: *)
(* it searches and inserts sentinel keys, inserts keys that are present,    *)
(* erases positions that are not Occupied, and calls                        *)
(* insert(key, value, il::io, i) with a position it saved earlier, for any  *)
(* key.  A call that breaks a contract and that no check stops leaves the   *)
(* program running outside its contract: fault becomes "undetected" with    *)
(* the table as the call left it, and nothing more is said about it.        *)

Sentinels == {empty_key, tombstone_key}

AnyKey == Keys \cup Sentinels

\* the lists that break the contract: a sentinel key, or a key twice
BadLists ==
  ListsOver(AnyKey) \ DistinctLists(Keys)

InitChecked ==
  /\ hash \in HashFunctions
  /\ checked = TRUE
  /\ \/ Constructed(Keys)
     \/ ConstructedFrom(Keys, DistinctLists(Keys))
     \/ ConstructedFrom(Keys, BadLists)
  /\ saved = [key |-> empty_key, pos |-> 0]

\* i = search(key), kept by the caller
SearchSave(key) ==
  /\ fault = "none"
  /\ fault' = IF checked /\ ~SearchPrecond(key) THEN "precond" ELSE "none"
  /\ saved' = IF checked /\ ~SearchPrecond(key) THEN saved
               ELSE [key |-> key, pos |-> search(bucket_, hash, key)]
  /\ op' = Op("search_save", key, 0, FALSE, NoEmptySlot(bucket_),
              HasTombstone(bucket_), FALSE, nb_entries_)
  /\ UNCHANGED <<bucket_, nb_entries_, nb_tombstones_, hash, checked, live>>

\* the saved position is what the contract of insert(key, value, il::io, i)
\* asks for: the not-found result of search(key) on the table as it is
FreshFor(key) ==
  /\ key \in Keys
  /\ saved.key = key
  /\ ~found(saved.pos)
  /\ saved.pos = search(bucket_, hash, key)

\* insert(key, value, il::io, i) with the saved position
InsertSaved(key, v) ==
  /\ fault = "none"
  /\ saved.key # empty_key
  /\ LET r == insert_io(This, hash, checked, key, v, saved.pos)
     IN  /\ bucket_' = r.bucket_
         /\ nb_entries_' = r.nb_entries_
         /\ nb_tombstones_' = r.nb_tombstones_
         /\ fault' = IF r.fault # "none" THEN r.fault
                      ELSE IF FreshFor(key) THEN "none" ELSE "undetected"
         /\ live' = IF r.fault = "none" /\ key \in Keys
                      THEN [live EXCEPT ![key] = v] ELSE live
         /\ op' = Op("insert_pos", key, 0, r.grew, NoEmptySlot(bucket_),
                     HasTombstone(bucket_), FALSE, nb_entries_)
  /\ UNCHANGED <<hash, checked, saved>>

\* insert(key, value) of a sentinel key or of a key that is present
InsertPresent(key, v) ==
  /\ fault = "none"
  /\ key \in Sentinels \/ found(search(bucket_, hash, key))
  /\ LET r == insert(This, hash, checked, key, v)
     IN  /\ bucket_' = r.bucket_
         /\ nb_entries_' = r.nb_entries_
         /\ nb_tombstones_' = r.nb_tombstones_
         /\ fault' = IF r.fault # "none" THEN r.fault ELSE "undetected"
         /\ op' = Op("insert_any", key, 0, r.grew, NoEmptySlot(bucket_),
                     HasTombstone(bucket_), FALSE, nb_entries_)
  /\ UNCHANGED <<hash, checked, saved, live>>

\* erase(i) of a position that is not Occupied, or past the storage
EraseAt(i) ==
  /\ fault = "none"
  /\ InRange(bucket_, i) => ~IsOccupied(At(bucket_, i))
  /\ LET r == erase(This, checked, i)
     IN  /\ bucket_' = r.bucket_
         /\ nb_entries_' = r.nb_entries_
         /\ nb_tombstones_' = r.nb_tombstones_
         /\ fault' = IF r.fault # "none" THEN r.fault ELSE "undetected"
         /\ op' = Op("erase_pos", 0, i, r.grew, NoEmptySlot(bucket_),
                     HasTombstone(bucket_), FALSE, nb_entries_)
  /\ UNCHANGED <<hash, checked, saved, live>>

\* value(i) = v at a position that is not Occupied, or past the storage
SetValueAt(i, v) ==
  /\ fault = "none"
  /\ InRange(bucket_, i) => ~IsOccupied(At(bucket_, i))
  /\ LET r == set_value(This, checked, i, v)
     IN  /\ bucket_' = r.bucket_
         /\ nb_entries_' = r.nb_entries_
         /\ nb_tombstones_' = r.nb_tombstones_
         /\ fault' = IF r.fault # "none" THEN r.fault ELSE "undetected"
         /\ op' = Op("value_pos", 0, i, r.grew, NoEmptySlot(bucket_),
                     HasTombstone(bucket_), FALSE, nb_entries_)
  /\ UNCHANGED <<hash, checked, saved, live>>

\* it->key = key, for an iterator the traversal from begin() reaches
SetKeyAt(p, key) ==
  /\ fault = "none"
  /\ \E j \in 1..Len(Iteration(This)) : Iteration(This)[j] = p
  /\ InRange(bucket_, p)
  /\ key # At(bucket_, p).key
  /\ LET r == set_key(This, p, key)
     IN  /\ bucket_' = r.bucket_
         /\ nb_entries_' = r.nb_entries_
         /\ nb_tombstones_' = r.nb_tombstones_
         /\ fault' = "undetected"
         /\ op' = Op("key_pos", key, p, r.grew, NoEmptySlot(bucket_),
                     HasTombstone(bucket_), FALSE, nb_entries_)
  /\ UNCHANGED <<hash, checked, saved, live>>

NextMisuse ==
  \/ Next
  \/ \E key \in AnyKey : SearchSave(key)
  \/ \E key \in AnyKey, v \in Vals : InsertSaved(key, v)
  \/ \E key \in AnyKey, v \in Vals : InsertPresent(key, v)
  \/ \E i \in 0..Len(bucket_) : EraseAt(i)
  \/ \E i \in 0..Len(bucket_), v \in Vals : SetValueAt(i, v)
  \/ \E p \in 0..Len(bucket_), key \in AnyKey : SetKeyAt(p, key)

SpecMisuse == InitChecked /\ [][NextMisuse]_vars

-----------------------------------------------------------------------------
(* Vocabulary of the properties *)

\* search(key) on the current table
Lookup(k) == search(bucket_, hash, k)

Slots == 0..(Len(bucket_) - 1)

OccupiedSlots == {p \in Slots : IsOccupied(At(bucket_, p))}

TombstoneSlots == {p \in Slots : is_equal(At(bucket_, p).key, tombstone_key)}

LiveKeys == {k \in Keys : live[k] # 0}

\* every key the caller holds is found, with the value it inserted
AllLiveFound ==
  \A k \in LiveKeys : found(Lookup(k)) /\ value(This, Lookup(k)) = live[k]

\* the (key, value) pairs held in the Occupied slots of a storage
Pairs(b) == {<<b[j].key, b[j].value>> : j \in {i \in 1..Len(b) : IsOccupied(b[i])}}

OccupiedCount(b) == Cardinality({j \in 1..Len(b) : IsOccupied(b[j])})

\* the index of the n-th probe (n = 0, 1, ...) of search for a key whose
\* hash is hv, in a storage of nb slots
RECURSIVE ProbeIndex(_, _, _)
ProbeIndex(nb, hv, n) ==
  IF n = 0 THEN BitAnd(hv, nb - 1)
  ELSE BitAnd(ProbeIndex(nb, hv, n - 1) + n, nb - 1)

IsPowerOfTwo(n) == \E e \in 0..20 : n = 2 ^ e

\* the ideal bucket of the key held in slot p
Ideal(p) == BitAnd(hash_value(hash, At(bucket_, p).key), Len(bucket_) - 1)

\* the slot of the n-th probe of search(k) on the current table
Probe(k, n) == ProbeIndex(Len(bucket_), hash_value(hash, k), n)

\* the indexes of probes 0..n of search for a key whose hash is hv, in a
\* storage of nb slots: ProbeIndex(nb, hv, j) at place j + 1
RECURSIVE ProbeSeq(_, _, _)
ProbeSeq(nb, hv, n) ==
  IF n = 0 THEN <<BitAnd(hv, nb - 1)>>
  ELSE LET s == ProbeSeq(nb, hv, n - 1)
       IN  Append(s, BitAnd(s[n] + n, nb - 1))

\* the keys met by the probes of search(k), in probe order
ProbedKeys(k) ==
  LET s == ProbeSeq(Len(bucket_), hash_value(hash, k), Len(bucket_) - 1)
  IN  [n \in Slots |-> At(bucket_, s[n + 1]).key]

\* the probes at which search(k) returns if it gets there: the slot is Empty
\* or holds k
StopProbes(k) ==
  {n \in Slots : \/ is_equal(ProbedKeys(k)[n], empty_key)
                 \/ is_equal(ProbedKeys(k)[n], k)}

-----------------------------------------------------------------------------
(* Properties *)

\* C1: round trip. Filling an empty table of any initial capacity with
\* distinct keys never stops the program, and every inserted key is found by
\* search at a position that holds exactly the value inserted for it, across
\* every growth the inserts triggered.
C1_RoundTrip == fault = "none" /\ AllLiveFound

\* C1 witness: the last insert grew the storage and every key is in the table.
C1_Witness ==
  /\ op.name = "insert" /\ op.grew /\ Len(bucket_) >= 4
  /\ LiveKeys = Keys

\* C2: no false negatives behind tombstones. For every Occupied slot p
\* holding key k, search(k) returns exactly p.
C2_OccupiedIsFound ==
  \A p \in OccupiedSlots : Lookup(At(bucket_, p).key) = p

\* C2 witness: an Occupied slot whose key meets a Tombstone earlier on its
\* probe sequence.
C2_Witness ==
  \E p \in OccupiedSlots : \E n \in 1..(Len(bucket_) - 1) :
    /\ ProbeIndex(Len(bucket_), hash_value(hash, At(bucket_, p).key), n) = p
    /\ \E j \in 0..(n - 1) :
         ProbeIndex(Len(bucket_), hash_value(hash, At(bucket_, p).key), j)
           \in TombstoneSlots

\* C3: saturated-table insert grows first. An insert that starts with no
\* Empty slot grows the storage, then writes the entry, which search finds.
C3_SaturatedInsertGrows ==
  (op.name = "insert" /\ op.sat) =>
    /\ fault = "none"
    /\ op.grew
    /\ found(Lookup(op.key))
    /\ value(This, Lookup(op.key)) = live[op.key]

\* C4: erase-then-reinsert. After erase of key k, search(k) is not-found;
\* after the insert of k that follows, k is found with the new value and
\* size() is what it was before the erase.
C4_EraseReinsert ==
  /\ op.name = "erase" => ~found(Lookup(op.key))
  /\ (op.name = "insert" /\ op.reins) =>
       /\ fault = "none"
       /\ found(Lookup(op.key))
       /\ value(This, Lookup(op.key)) = live[op.key]
       /\ size(This) = op.size0

\* C5: count invariant. size() is the number of Occupied slots, which is the
\* number of keys inserted and not erased since; search and reserve leave
\* size() unchanged.
C5_CountInvariant ==
  /\ size(This) = Cardinality(OccupiedSlots)
  /\ size(This) = Cardinality(LiveKeys)
  /\ op.name \in {"search", "reserve"} => size(This) = op.size0

\* C6: liveCount + tombstoneCount <= capacity, in every state of a program
\* that has not stopped, in particular after erase / re-insert cycles in
\* which the insert reuses a Tombstone slot.
C6_CountersWithinCapacity ==
  fault = "none" => nb_entries_ + nb_tombstones_ <= capacity(This)

\* C7: capacity invariant. capacity() is 0 or a power of two, and
\* size() <= capacity().
C7_CapacityInvariant ==
  /\ capacity(This) = 0 \/ IsPowerOfTwo(capacity(This))
  /\ size(This) <= capacity(This)

\* C7 witness: an insert has grown a full table of capacity 1 to capacity 4.
C7_Witness ==
  /\ op.name = "insert" /\ op.grew
  /\ capacity(This) = 4 /\ size(This) = 2

\* C8: capacity is monotone. No call makes capacity() smaller.
C8_CapacityMonotone == [][Len(bucket_') >= Len(bucket_)]_vars

\* C9: reserve(n) is valid for every n >= 0. It fails no assertion, and
\* afterwards capacity() >= n and every live key is still found with its
\* value.
C9_ReserveValid ==
  op.name = "reserve" =>
    /\ fault = "none"
    /\ capacity(This) >= op.val
    /\ AllLiveFound

\* C10: tombstone reclamation. Right after a call that grew the storage,
\* tombstoneCount is 0 and no slot is a Tombstone.
C10_GrowthDropsTombstones ==
  op.grew => nb_tombstones_ = 0 /\ TombstoneSlots = {}

\* C10 witness: a reserve rebuilt a storage that held a Tombstone.
C10_Witness ==
  /\ op.name = "reserve" /\ op.grew /\ op.tomb
  /\ fault = "none"

\* C11: growth preserves content. A reserve that rebuilt the storage leaves
\* the set of (key, value) pairs in Occupied slots, their number and
\* liveCount as they were; an insert that rebuilt the storage adds its own
\* entry to them and nothing else.
C11_GrowthPreservesContent ==
  [][op'.grew =>
       IF op'.name = "insert"
         THEN /\ Pairs(bucket_') = Pairs(bucket_) \cup {<<op'.key, live'[op'.key]>>}
              /\ OccupiedCount(bucket_') = OccupiedCount(bucket_) + 1
              /\ nb_entries_' = nb_entries_ + 1
         ELSE /\ Pairs(bucket_') = Pairs(bucket_)
              /\ OccupiedCount(bucket_') = OccupiedCount(bucket_)
              /\ nb_entries_' = nb_entries_]_vars

\* C11 witness: a reserve rebuilt a storage that held a live entry and a
\* Tombstone.
C11_Witness ==
  /\ op.name = "reserve" /\ op.grew /\ op.tomb
  /\ OccupiedSlots # {} /\ Len(bucket_) >= 4

\* C12: iteration completeness. In every reachable state, iterating from
\* begin() to end() visits Occupied slots only, in increasing index order,
\* every one of them, size() of them in all, and search of the key at a
\* visited position returns that position.
C12_IterationComplete ==
  LET it == Iteration(This)
  IN  /\ \A j \in 1..Len(it) :
           /\ it[j] \in OccupiedSlots
           /\ Lookup(At(bucket_, it[j]).key) = it[j]
      /\ \A i, j \in 1..Len(it) : i < j => it[i] < it[j]
      /\ {it[j] : j \in 1..Len(it)} = OccupiedSlots
      /\ Len(it) = size(This)

\* C13: erase(p) of an Occupied position p makes slot p a Tombstone holding
\* the default value, takes 1 from liveCount, adds 1 to tombstoneCount, and
\* leaves the capacity and every other slot as they were.
C13_EraseFrame ==
  [][op'.name = "erase" =>
       LET p == Lookup(op'.key)
       IN  /\ fault' = "none" /\ ~op'.grew
           /\ IsOccupied(At(bucket_, p))
           /\ At(bucket_', p) = [key |-> tombstone_key, value |-> DefaultValue]
           /\ nb_entries_' = nb_entries_ - 1
           /\ nb_tombstones_' = nb_tombstones_ + 1
           /\ Len(bucket_') = Len(bucket_)
           /\ \A q \in Slots : q # p => At(bucket_', q) = At(bucket_, q)]_vars

\* C13 witness: an erase has acted on a table that keeps another entry.
C13_Witness ==
  /\ op.name = "erase" /\ fault = "none"
  /\ OccupiedSlots # {} /\ TombstoneSlots # {}

\* C14: erase invalidates only the erased position. Every other live key is
\* found at the same position right before and right after the erase.
C14_EraseKeepsOtherPositions ==
  [][op'.name = "erase" =>
       \A k \in Keys \ {op'.key} :
         found(Lookup(k)) => Lookup(k)' = Lookup(k)]_vars

\* C14 witness: an erase has acted, and the key of another entry meets the
\* erased slot on its probe sequence before its own.
C14_Witness ==
  /\ op.name = "erase" /\ fault = "none"
  /\ \E p \in OccupiedSlots : \E n \in 1..(Len(bucket_) - 1) :
       /\ ProbeIndex(Len(bucket_), hash_value(hash, At(bucket_, p).key), n) = p
       /\ \E j \in 0..(n - 1) :
            /\ ProbeIndex(Len(bucket_), hash_value(hash, At(bucket_, p).key), j)
                 \in TombstoneSlots
            /\ ProbeIndex(Len(bucket_), hash_value(hash, op.key), 0)
                 = ProbeIndex(Len(bucket_), hash_value(hash, At(bucket_, p).key), 0)

\* the checks of the checked build that end the program with a diagnostic
Detected == {"precond", "assert", "bounds"}

\* the call left the table as it was
TableUnchanged ==
  /\ bucket_' = bucket_
  /\ nb_entries_' = nb_entries_
  /\ nb_tombstones_' = nb_tombstones_

(* C15: in a checked build search(key), insert(key, value) and              *)
(* insert(key, value, il::io, i) called with the empty or the tombstone     *)
(* sentinel as key fail a precondition check: the table is left unchanged   *)
(* and no sentinel key is written as a live entry.                          *)
C15_SentinelKeyRejected ==
  [][(op'.name \in {"search_save", "insert_any", "insert_pos"}
        /\ op'.key \in Sentinels)
       => (fault' = "precond" /\ TableUnchanged)]_vars

(* C16: in a checked build erase(p) on a position whose slot is Empty or    *)
(* Tombstone is detected and ends the program, with the slots, the entry     *)
(* count and the tombstone count unmodified.                                 *)
C16_EraseNonOccupiedRejected ==
  [][(op'.name = "erase_pos" /\ InRange(bucket_, op'.val)
        /\ ~IsOccupied(At(bucket_, op'.val)))
       => (fault' \in Detected /\ TableUnchanged)]_vars

(* C17: in a checked build an insert of a key that is present is detected   *)
(* by both shapes, insert(key, value) and insert(key, value, il::io, i)     *)
(* with a not-found position obtained before the key was inserted: the       *)
(* number of Occupied slots and the entry count do not change.               *)
C17_DuplicateInsertRejected ==
  [][((op'.name = "insert_any"
          \/ (op'.name = "insert_pos" /\ saved.key = op'.key /\ ~found(saved.pos)))
        /\ op'.key \in Keys
        /\ found(search(bucket_, hash, op'.key)))
       => /\ fault' \in Detected
          /\ OccupiedCount(bucket_') = OccupiedCount(bucket_)
          /\ nb_entries_' = nb_entries_]_vars

(* C18: in a checked build insert(key, value, il::io, i) with a not-found   *)
(* position of the key that the storage has outdated since the search (by   *)
(* a growth or another mutation) is detected and ends the program; nothing   *)
(* is written at the stale index.  Only the calls that do not grow are       *)
(* stated: a call that grows searches again and does not use the index.      *)
C18_StalePositionRejected ==
  [][(op'.name = "insert_pos" /\ op'.key \in Keys /\ saved.key = op'.key
        /\ ~found(saved.pos) /\ ~op'.grew
        /\ ~found(search(bucket_, hash, op'.key))
        /\ saved.pos # search(bucket_, hash, op'.key))
       => (fault' \in Detected /\ bucket_' = bucket_)]_vars

(* C19 as stated: in every state with capacity > 0 the load factor          *)
(* size()/capacity() is at most two thirds, rounded up to a whole entry.    *)
C19_LoadAtMostTwoThirds ==
  (fault = "none" /\ capacity(This) > 0)
    => 3 * size(This) <= 2 * capacity(This) + 2

(* C19: the load factor never exceeds 100%: size() <= capacity() in every   *)
(* state, and an insert grows the table exactly when size() >= capacity()   *)
(* before the store, so a full table (load 100%) is reached.                *)
C19_LoadAtMostOne ==
  /\ [](size(This) <= capacity(This))
  /\ [][(op'.name = "insert" /\ fault' = "none")
          => (op'.grew <=> size(This) >= capacity(This))]_vars

C19_Witness ==
  /\ fault = "none"
  /\ op.name = "insert" /\ ~op.grew
  /\ size(This) = capacity(This)
  /\ capacity(This) >= 4

\* the entry counts asked of a constructor or of reserve
Requested == 0..(IF MaxReserve >= MaxInit THEN MaxReserve ELSE MaxInit)

(* C20: a table constructed for n entries, or after reserve(n) with no live *)
(* entry, has capacity nb_bucket(n) and no Tombstone; and at that capacity, *)
(* with no Tombstone (no erase since), an insert of a new key while fewer   *)
(* than n keys are live does not grow: the capacity is unchanged, the key   *)
(* is found and every live key keeps the position search returns for it.    *)
C20_ReservedInsertsDoNotGrow ==
  /\ [](op.name = "init"
          => /\ TombstoneSlots = {} /\ size(This) = 0
             /\ \/ capacity(This) = 0
                \/ \E n \in 0..MaxInit : capacity(This) = nb_bucket(n))
  /\ []((op.name = "reserve" /\ fault = "none" /\ op.size0 = 0)
          => /\ TombstoneSlots = {} /\ size(This) = 0
             /\ capacity(This) = nb_bucket(op.val))
  /\ [][(/\ op'.name = "insert"
          /\ TombstoneSlots = {}
          /\ \E n \in Requested :
                capacity(This) = nb_bucket(n) /\ size(This) < n)
       => /\ fault' = "none"
          /\ ~op'.grew
          /\ Len(bucket_') = Len(bucket_)
          /\ found(search(bucket_', hash, op'.key))
          /\ \A k \in Keys : found(Lookup(k)) => Lookup(k)' = Lookup(k)]_vars

C20_Witness ==
  /\ fault = "none"
  /\ op.name = "insert" /\ ~op.grew
  /\ TombstoneSlots = {}
  /\ capacity(This) = nb_bucket(MaxReserve)
  /\ size(This) = MaxReserve

(* C21: in every state with size() > 0 the displaced count and the          *)
(* displaced-twice count lie between 0 and size(), so displaced() and       *)
(* displaced_twice() lie in [0, 1], and the displaced-twice count is at     *)
(* most the displaced count.                                                *)
C21_DisplacementBounds ==
  (fault = "none" /\ size(This) > 0)
    => LET d == displaced(This, hash)
           t == displaced_twice(This, hash)
       IN  /\ d.den = size(This) /\ t.den = size(This)
           /\ 0 <= d.num /\ d.num <= d.den
           /\ 0 <= t.num /\ t.num <= t.den
           /\ t.num <= d.num

C21_Witness ==
  /\ fault = "none" /\ size(This) > 0
  /\ displaced_twice(This, hash).num > 0
  /\ displaced_twice(This, hash).num < displaced(This, hash).num

(* C28: the displaced-twice count is the number of Occupied slots whose     *)
(* position differs from their ideal bucket and from ideal - 1, for every   *)
(* position, index 0 included.                                              *)
C28_DisplacedTwiceCount ==
  fault = "none"
    => displaced_twice(This, hash).num
         = Cardinality({p \in OccupiedSlots : p # Ideal(p) /\ p # Ideal(p) - 1})

(* C22: when search(key) of an absent key reaches an Empty slot at index e, *)
(* the insertion point it returns is the first Tombstone met earlier on the *)
(* key's probe sequence if there is one, and e otherwise; the index is      *)
(* inside the storage and its slot is not Occupied.                         *)
C22_InsertionPoint ==
  \A k \in Keys :
    LET keys == ProbedKeys(k)
        stops == {n \in Slots : is_equal(keys[n], empty_key) \/ is_equal(keys[n], k)}
        e == Min(stops)
        tombs == {j \in 0..(e - 1) : is_equal(keys[j], tombstone_key)}
        i == Lookup(k)
        point == 0 - (1 + i)
    IN  (stops # {} /\ is_equal(keys[e], empty_key))
          => /\ ~found(i)
             /\ point = IF tombs = {} THEN Probe(k, e) ELSE Probe(k, Min(tombs))
             /\ InRange(bucket_, point)
             /\ ~IsOccupied(At(bucket_, point))

\* an absent key whose search passes two Tombstones before an Empty slot
C22_Witness ==
  \E k \in Keys :
    /\ StopProbes(k) # {}
    /\ is_equal(ProbedKeys(k)[Min(StopProbes(k))], empty_key)
    /\ Cardinality({j \in 0..(Min(StopProbes(k)) - 1) :
                      is_equal(ProbedKeys(k)[j], tombstone_key)}) >= 2

(* C23: at every capacity c >= 1 the table takes and from every starting    *)
(* index, the c first probes i_0 = start, i_{k+1} = (i_k + k + 1) & (c - 1) *)
(* visit each of the c slots exactly once (c probes reach c different       *)
(* slots); and search, which makes at most c probes, reports no space only  *)
(* if no slot is Empty and no slot holds the key.                           *)
C23_ProbeCoverage ==
  capacity(This) > 0
    => /\ IsPowerOfTwo(capacity(This))
       /\ \A s \in Slots :
            Cardinality({ProbeIndex(capacity(This), s, n) : n \in Slots})
              = capacity(This)
       /\ \A k \in DOMAIN hash :
            Lookup(k) = 0 - (1 + capacity(This))
              => \A p \in Slots : /\ ~is_equal(At(bucket_, p).key, empty_key)
                                   /\ ~is_equal(At(bucket_, p).key, k)

\* search made all its probes on a table of capacity 4 or more and found
\* no space
C23_Witness ==
  /\ capacity(This) >= 4
  /\ \E k \in DOMAIN hash : Lookup(k) = 0 - (1 + capacity(This))

(* C24: the size reserve(n) asks of grow is 1 for n = 0 and, for n >= 1,    *)
(* floor(3n/2) + 1 rounded up to a power of two: the least power of two     *)
(* that is >= floor(3n/2) + 1, a power of two being returned unchanged.     *)
C24_NextBucketCount ==
  (op.name = "reserve" /\ fault = "none")
    => LET x == (3 * op.val) \div 2 + 1
           rounded == Min({2 ^ e : e \in {d \in 0..20 : 2 ^ d >= x}})
       IN  /\ nb_bucket(op.val) = IF op.val = 0 THEN 1 ELSE rounded
           /\ capacity(This) = nb_bucket(op.val)

(* C25: in every state with size() > 0 the scan of begin() stops at an      *)
(* index below the capacity, the lowest index of an Occupied slot; with     *)
(* size() = 0, begin() is end().                                            *)
C25_BeginExact ==
  IF size(This) > 0
    THEN /\ InRange(bucket_, begin(This))
         /\ begin(This) \in OccupiedSlots
         /\ \A p \in OccupiedSlots : begin(This) <= p
    ELSE begin(This) = end(This)

(* C26: on a table of capacity 0 search of any key reports not found, no    *)
(* space; and the first insert into a table of capacity 0 grows the storage *)
(* to capacity 1 before it writes: afterwards size() = 1 and the key is     *)
(* found with its value.                                                    *)
C26_CapacityZero ==
  /\ [](capacity(This) = 0
          => \A k \in Keys : Lookup(k) = 0 - (1 + 0))
  /\ [][(op'.name = "insert" /\ capacity(This) = 0)
          => /\ fault' = "none"
             /\ op'.grew
             /\ Len(bucket_') = 1
             /\ nb_entries_' = 1
             /\ found(search(bucket_', hash, op'.key))
             /\ At(bucket_', search(bucket_', hash, op'.key)).value
                  = live'[op'.key]
             /\ live'[op'.key] \in Vals]_vars

C26_Witness ==
  /\ op.name = "insert" /\ op.grew /\ op.size0 = 0 /\ op.sat
  /\ capacity(This) = 1 /\ size(This) = 1
  /\ found(Lookup(op.key))

(* C27: from every state and for every absent key k and value v,            *)
(* insert(k, v, il::io, i) with i the result of search(k) on that state     *)
(* leaves the same slots, capacity, entry count and tombstone count as      *)
(* insert(k, v), and stops in the same way when it stops.                   *)
C27_InsertShapesEquivalent ==
  fault = "none"
    => \A k \in Keys :
         LET i == Lookup(k)
         IN  ~found(i)
               => \A v \in Vals :
                    LET a == insert(This, hash, checked, k, v)
                        b == insert_io(This, hash, checked, k, v, i)
                    IN  /\ b.bucket_ = a.bucket_
                        /\ Len(b.bucket_) = Len(a.bucket_)
                        /\ b.nb_entries_ = a.nb_entries_
                        /\ b.nb_tombstones_ = a.nb_tombstones_
                        /\ b.fault = a.fault

\* an absent key whose home bucket is taken, so that its insertion point
\* comes from probing, in a table holding a Tombstone
C27_Witness ==
  /\ fault = "none"
  /\ TombstoneSlots # {}
  /\ \E k \in Keys :
       /\ ~found(Lookup(k))
       /\ InRange(bucket_, 0 - (1 + Lookup(k)))
       /\ 0 - (1 + Lookup(k)) # BitAnd(hash_value(hash, k), Len(bucket_) - 1)
       /\ insert_io(This, hash, checked, k, 1, Lookup(k)).fault = "none"

(* C29: in every state reached by calls that insert a key only after a      *)
(* not-found search of it on the current table, no two Occupied slots hold  *)
(* equal keys, also after an insert that reuses a Tombstone lying earlier   *)
(* on the probe sequence than other Occupied slots.                         *)
C29_KeysUnique ==
  \A p, q \in OccupiedSlots :
    is_equal(At(bucket_, p).key, At(bucket_, q).key) => p = q

\* the last insert reused the only Tombstone, and another Occupied slot
\* lies later on the probe sequence of the inserted key
C29_Witness ==
  /\ fault = "none"
  /\ op.name = "insert" /\ op.tomb /\ ~op.grew
  /\ TombstoneSlots = {}
  /\ \E n1, n2 \in Slots :
       /\ n1 < n2
       /\ Probe(op.key, n1) = Lookup(op.key)
       /\ Probe(op.key, n2) \in OccupiedSlots

(* C30: in every state nb_tombstones_ is the number of slots whose key is   *)
(* the tombstone key; an insert that writes into a Tombstone slot lowers it *)
(* by one.                                                                  *)
C30_TombstoneCountExact ==
  fault = "none" => nb_tombstones_ = Cardinality(TombstoneSlots)

====
